---- MODULE Spec2Model ----
(***************************************************************************)
(* Real-time comment orchestration of prof-ai-reaction: the latest-wins    *)
(* detection queue (EventDetectionQueue), the short-turn aggregator, the   *)
(* two text buffers and the CommentSystem facade that wires them.          *)
(*                                                                         *)
(* Units.  The source keeps media times in seconds (floats) and multiplies *)
(* by 1000 wherever it compares them with a millisecond setting.  The      *)
(* model keeps every media time as an integer number of milliseconds       *)
(* (seconds x 1000), so "(a - b) * 1000" of the source is "a - b" here.    *)
(* Wall-clock time (Date.now()) is in milliseconds as in the source.       *)
(*                                                                         *)
(* Text.  A turn's content is a sequence of tokens; joining contents with  *)
(* a single space is the concatenation of the token sequences, and the     *)
(* empty string is the empty sequence.  Every input turn carries one       *)
(* token of its own, so "text X contains the content of turn T" is         *)
(* "every token of T occurs in X".                                         *)
(*                                                                         *)
(* Optional values (T | null) are sequences of length at most one:         *)
(* <<>> is null and <<v>> is the value v.                                  *)
(***************************************************************************)
EXTENDS Integers, Sequences, FiniteSets, TLC

(***************************************************************************)
(* Bounds of the model.                                                    *)
(***************************************************************************)
\* turns handed to onTurnCompleted in one behaviour of Spec
MaxTurns == 3
\* jobs handed to enqueue in one behaviour of SpecQueue
MaxJobs == 3
\* the wall clock stops advancing here
MaxClock == 7501
\* facade clear() calls in one behaviour of Spec
MaxClears == 1

\* evaluate and updateHistory calls in one behaviour of SpecEngine
MaxEvals == 4
MaxComments == 11
\* configurations of SpecEngine: baseThreshold in 1/10000, and
\* <<minInterval, maxInterval>> in seconds
BaseThresholds == {1000, 2500, 6500, 10000}
Intervals == {<<20, 90>>, <<0, 0>>}
\* timestamps handed to the engine (media ms); their difference exceeds
\* maxInterval as the engine reads it
EngineStamps == {20000, 100000000}

\* amount by which the wall clock advances between two handlers; two steps
\* give the age 5000 (not stale), three give 7500 (stale)
TickStep == 2500
\* milliseconds that can pass between the two Date.now() reads of one
\* synchronous run (queue staleness check, then processJob's own check);
\* the model lets them pass where they can change a verdict, on the boundary
Skews == {0, 1}
\* gap before an input turn and its duration (media ms)
TurnGaps == {0, 500}
TurnDurations == {600, 1500}
\* the aggregator driven alone: add calls, and the gaps, durations and word
\* counts of the turns added
MaxAdds == 4
AddGaps == {0, 500}
AddDurations == {400, 1500}
AddWords == {0, 1, 2}
\* aggregationMaxWords as configured: disabled, and two small limits
MaxWordsInputs == {0, 2, 3}
\* the detector driven alone: events per response, the values confidence and
\* intensity take and the values the four thresholds take (in 1/10000)
MaxEvents == 2
\* the scoring of the decision engine: updateHistory and evaluate calls, the
\* media timestamps (ms) they carry and the intervals configured (seconds)
MaxScoreComments == 3
MaxScoreEvals == 2
ScoreStamps == {10000, 20000, 200000, 30000000, 90000000, 100000000}
ScoreIntervals == {<<20, 90>>, <<10, 60>>}
\* finalScore of an evaluation, in 1/10000: below every threshold, above
\* 0.85 and above 0.95
FinalScores == {2000, 9000, 9800}
\* two instances in one process: turns and generations per instance, and the
\* model requests of one run (the selector, then the writer it hands off to)
MaxTwoTurns == 2
MaxGens == 2
MaxRequests == 2
\* construction: the values a field of options.config takes when it is given
\* (thresholds in 1/10000, intervals in seconds, durations in ms); each set
\* holds the default, another value in range and values out of range
BaseThresholdInputs == {6500, 3000, 15000, -1000}
MinIntervalInputs == {20, 5, -5}
MaxIntervalInputs == {90, 60, -1}
MinTurnDurationInputs == {1200, 0, -100}
Levels == {2000, 5000, 8000}
Thresholds == {5000, 8000}

(***************************************************************************)
(* Program constants.                                                      *)
(***************************************************************************)
MAX_TURN_STALENESS_MS == 5000
minTurnDurationMs == 1200
aggregationMaxDelayMs == 800
aggregationMaxGapMs == 400
aggregationMaxWords == 50
aggregationMaxTotalDurationMs == 12000
\* the separator of `${bufferedContent} ${content}`, as a token; words are
\* positive tokens
Space == 0
\* seconds, as configured
windowDuration == 300
\* suggestedDelay of a decision: the base delay of a high-priority event
DelayHigh == 1500
DelayMedium == 2500
DelayLow == 4000
\* defaultDecisionEngineConfig: baseThreshold 0.65 (in 1/10000), minInterval
\* and maxInterval in seconds
defaultBaseThreshold == 6500
defaultMinInterval == 20
defaultMaxInterval == 90
\* defaultEventDetectorConfig, in 1/10000
defaultEventDetectorConfig ==
  [detectionSensitivity |-> 7000, emotionThreshold |-> 7500,
   topicTransitionThreshold |-> 3000, keypointDensityThreshold |-> 5000]

VARIABLES
  \* EventDetectionQueue
  pendingJob,        \* the single slot: <<>> or <<job>>
  processing,        \* the worker-loop flag
  running,           \* process(job) invocations in flight: [job, phase]
  \* CommentSystem
  fullContextBuffer, \* segments of the context buffer
  uncommentedBuffer, \* segments of the uncommented buffer
  pendingComment,    \* <<>> or <<job id>>: the live AbortController
  scheduled,         \* scheduled comments: [job, phase, deadline]
  \* ShortTurnAggregator
  bufferedContent, bufferedStartTime, lastTurnEndTime,
  timeoutHandle,     \* <<>> or <<timer>>: the handle kept of the last setTimeout
  timers,            \* the timers armed and not yet fired or cancelled: [deadline, turn]
  maxWords,          \* config.aggregationMaxWords ?? 0
  \* environment
  now,               \* Date.now()
  nTurns,            \* turns received so far
  mediaPos,          \* end of the last input turn (media ms)
  nJobs,             \* jobs enqueued so far; a job's id is its enqueue rank
  nClears,           \* facade clear() calls so far
  \* observations
  processed,         \* ids of the jobs passed to options.process, in order
  settled,           \* ids of the jobs whose process call has settled
  rejected,          \* ids of the jobs whose process call rejected
  errorJobs,         \* ids of the jobs emitted on the queue's error channel
  dropped,           \* stale drops: [id, age, by]
  detected,          \* detector calls: [id, age]
  overwritten,       \* ids of the pending jobs replaced by an enqueue
  cleared,           \* ids of the pending jobs removed by the queue's clear()
  burstFirst,        \* ids J1 enqueued while idle and followed at once by an enqueue
  prevEnq,           \* <<>> or <<id, wasIdle>> of the enqueue made by the last step
  nEmitted,          \* comment-generated events emitted so far
  sinceEmit,         \* a comment was generated and no turn has arrived since
  clearedAt,         \* nTurns at the last facade clear()
  outcomes,          \* generation outcomes: [id, event, aborted]
  \* DecisionEngine
  lastCommentTime,   \* <<>> (-Infinity) or <<timestamp>>
  commentHistory,    \* the comments kept: [id, timestamp]
  dynamicThreshold,  \* in 1/10000
  baseThreshold,     \* config.baseThreshold in 1/10000
  minInterval,       \* config.minInterval
  maxInterval,       \* config.maxInterval
  nEvals,            \* evaluate calls made on the engine alone
  nComments,         \* updateHistory calls made on the engine alone
  \* ShortTurnAggregator driven alone
  constituents,      \* the turns added to the aggregation in progress, in order
  produced,          \* <<>> or <<[turn, parts, by]>>: the turn the last step produced
  \* EventDetector driven alone
  detectorConfig,    \* the four thresholds, in 1/10000
  response,          \* analysis.events of the model's response
  returned,          \* <<>> or <<the events detectWithAI returned>>
  \* DecisionEngine.evaluate observed
  decision,          \* <<>> or <<the Decision of the last evaluate, with its timestamp and
                     \* the threshold it was decided against>>
  \* two CommentSystem instances in one process
  defaultOpenAIKey,  \* the process-wide default key of @openai/agents: <<>> or <<key>>
  instances,         \* per instance: [apiKey, turns, phase, requests, gens, used]
  \* construction of a CommentSystem
  configInput,       \* options.config: a field is <<>> (omitted) or <<value>>
  created,           \* <<>> or <<[status, config]>>: the outcome of new CommentSystem
  \* a TextBuffer driven alone
  segments,          \* the segments of the buffer, in arrival order
  called             \* <<>> or <<the last getWindow or search call and what it returned>>

qvars == <<pendingJob, processing, running>>
fvars == <<fullContextBuffer, uncommentedBuffer, pendingComment, scheduled>>
avars == <<bufferedContent, bufferedStartTime, lastTurnEndTime, timeoutHandle, timers,
           maxWords>>
evars == <<now, nTurns, mediaPos, nJobs, nClears>>
ovars == <<processed, settled, rejected, errorJobs, dropped, detected,
           overwritten, cleared, burstFirst, prevEnq, nEmitted, sinceEmit,
           clearedAt, outcomes>>
dvars == <<lastCommentTime, commentHistory, dynamicThreshold>>
gvars == <<baseThreshold, minInterval, maxInterval, nEvals, nComments>>
detvars == <<detectorConfig, response, returned>>
twovars == <<defaultOpenAIKey, instances>>
cfgvars == <<configInput, created>>
tbvars == <<segments, called>>
svars == <<constituents, produced, detvars, decision, twovars, cfgvars, tbvars>>
vars == <<qvars, fvars, avars, evars, ovars, dvars, gvars, svars>>

Range(s) == {s[i] : i \in 1..Len(s)}

RECURSIVE Flatten(_)
\* the contents of a list of segments (or texts) joined by single spaces
Flatten(ss) ==
  IF ss = <<>> THEN <<>>
  ELSE IF Len(ss) = 1 THEN Head(ss)
  ELSE Head(ss) \o <<Space>> \o Flatten(Tail(ss))

RECURSIVE SelectSegs(_, _)
\* Array.prototype.filter with the predicate "timestamp >= cutoff"
SelectSegs(segs, cutoff) ==
  IF segs = <<>> THEN <<>>
  ELSE IF Head(segs).timestamp >= cutoff
       THEN <<Head(segs)>> \o SelectSegs(Tail(segs), cutoff)
       ELSE SelectSegs(Tail(segs), cutoff)


(***************************************************************************)
(* Values.                                                                 *)
(***************************************************************************)
MkTurn(id, content, startTime, endTime) ==
  [id |-> id, content |-> content, startTime |-> startTime, endTime |-> endTime]

\* { ...job, enqueuedAtMs: Date.now() }
MkJob(id, turn, uncommentedText, fullContext, t) ==
  [id |-> id, turn |-> turn, uncommentedText |-> uncommentedText,
   fullContext |-> fullContext, enqueuedAtMs |-> t]

(***************************************************************************)
(* CommentSystem.isTurnStale: wall-clock enqueue age only; the turn is     *)
(* ignored.                                                                *)
(***************************************************************************)
StaleAtBoundary(turn, enqueuedAtMs, t) == t - enqueuedAtMs >= MAX_TURN_STALENESS_MS

IsTurnStale(turn, enqueuedAtMs, t) == t - enqueuedAtMs > MAX_TURN_STALENESS_MS

\* options.isStale as the facade passes it to the queue
IsStale(job, t) == IsTurnStale(job.turn, job.enqueuedAtMs, t)

(***************************************************************************)
(* EventDetectionQueue.                                                    *)
(***************************************************************************)
EnqueueAppends(slot, job) == Append(slot, job)

EnqueueKeepsOlder(slot, job) == IF slot = <<>> THEN <<job>> ELSE slot

\* enqueue: this.pendingJob = withTimestamp
EnqueueSlot(slot, job) == <<job>>

GuardMissing(flag) == FALSE

\* processNext: if (this.processing) return
ProcessNextReturnsEarly(flag) == flag

\* const job = this.pendingJob; this.pendingJob = null
TakePending(slot) ==
  [job |-> IF slot = <<>> THEN <<>> ELSE <<Head(slot)>>, rest |-> <<>>]

RECURSIVE DrainLoop(_, _)
\* the synchronous part of the while (true) loop: stale jobs are dropped
\* until the slot is empty or a job is handed to options.process
DrainLoop(slot, t) ==
  LET take == TakePending(slot) IN
  IF take.job = <<>>
  THEN [started |-> <<>>, stale |-> <<>>, pending |-> take.rest]
  ELSE IF IsStale(take.job[1], t)
       THEN LET r == DrainLoop(take.rest, t)
            IN  [r EXCEPT !.stale = take.job \o @]
       ELSE [started |-> take.job, stale |-> <<>>, pending |-> take.rest]

NoCatch(job) == [emitted |-> FALSE, rethrown |-> TRUE]

\* await this.options.process(job).catch((err) => emit("error", err, job))
CatchProcessError(job) == [emitted |-> TRUE, rethrown |-> FALSE]

StaleDrops(jobs, t, by) ==
  {[id |-> j.id, age |-> t - j.enqueuedAtMs, by |-> by] : j \in Range(jobs)}

\* observations shared by every enqueue
EnqueueObserved(slot, id) ==
  /\ overwritten' = overwritten \cup {j.id : j \in Range(pendingJob) \ Range(slot)}
  /\ burstFirst' = burstFirst \cup
       {e.id : e \in {x \in Range(prevEnq) : x.idle}}
  /\ prevEnq' = <<[id |-> id, idle |-> ~processing]>>

(***************************************************************************)
(* DecisionEngine.  Thresholds are kept in units of 1/10000 and products   *)
(* are rounded down.  evaluate divides the difference of two timestamps    *)
(* by 1000 and compares the result with intervals in seconds; with the     *)
(* model's media milliseconds the divisor is 1000 * 1000.                  *)
(***************************************************************************)
Min(a, b) == IF a <= b THEN a ELSE b

Max(a, b) == IF a >= b THEN a ELSE b

\* constructor: Math.min(config.baseThreshold * 1.3, 0.85)
InitialThreshold(base) == Min((base * 13) \div 10, 8500)

\* evaluate: timeSinceLastComment times 1000 * 1000
TimeSinceLastComment(last, timestamp) ==
  IF last = <<>> THEN 0 ELSE Max(0, timestamp - last[1])

\* adjustThreshold(commented, timeSinceLastComment)
AdjustThreshold(th, base, minI, maxI, commented, since) ==
  IF commented /\ 2 * since < 3 * minI * 1000 * 1000
  THEN Min(9500, (th * 105) \div 100)
  ELSE IF ~commented /\ since > maxI * 1000 * 1000
       THEN Max(3000, (th * 95) \div 100)
       ELSE th + ((base - th) \div 10)

\* evaluate: conversationTime = timestamp / 1000; isEarlyInConversation =
\* conversationTime < 20 (timestamp is turn.endTime, media seconds)
IsEarlyInConversation(timestamp) == timestamp < 20 * 1000 * 1000

\* calculateTimingScore(timeSinceLastComment), in 1/10000; since is
\* timeSinceLastComment times 1000 * 1000, and the quotients are taken on
\* since / 1000 to stay within 32 bits
CalculateTimingScore(since, minI, maxI) ==
  IF since < minI * 1000 * 1000
  THEN Max(500, ((since \div 1000) * 2000) \div (minI * 1000))
  ELSE IF since > maxI * 1000 * 1000
       THEN 10000
       ELSE (((since \div 1000) - minI * 1000) * 10000) \div ((maxI - minI) * 1000)

\* evaluate: factors.timing
TimingFactor(last, timestamp, minI, maxI) ==
  IF IsEarlyInConversation(timestamp) THEN 1000
  ELSE CalculateTimingScore(TimeSinceLastComment(last, timestamp), minI, maxI)

\* calculateFrequencySuppression(currentTimestamp), in 1/10000: the comments
\* with currentTimestamp - timestamp < 90000 and >= 0 (media seconds)
CalculateFrequencySuppression(history, currentTimestamp) ==
  LET recentComments ==
        {i \in 1..Len(history) :
           /\ history[i].timestamp # <<>>
           /\ currentTimestamp - history[i].timestamp[1] < 90000 * 1000
           /\ currentTimestamp - history[i].timestamp[1] >= 0}
      recentCommentsCount == Cardinality(recentComments)
  IN  IF recentCommentsCount >= 3 THEN 2000
      ELSE IF recentCommentsCount >= 2 THEN 4000
      ELSE IF recentCommentsCount >= 1 THEN 6000
      ELSE 10000

\* determinePriority(score, events)
DeterminePriority(score, hasImportantEvent) ==
  IF hasImportantEvent /\ score > 9500 THEN "high"
  ELSE IF score > 8500 THEN "medium"
  ELSE "low"

\* calculateSuggestedDelay(priority, timeSinceLastComment), in ms; since is
\* timeSinceLastComment times 1000 * 1000
CalculateSuggestedDelay(priority, since, minI) ==
  LET baseDelay == IF priority = "high" THEN DelayHigh
                   ELSE IF priority = "medium" THEN DelayMedium ELSE DelayLow
  IN  IF since < minI * 1000 * 1000
      THEN baseDelay + (minI * 1000 - since \div 1000)
      ELSE baseDelay

HistoryUnbounded(history, comment) == Append(history, comment)

\* updateHistory: push, then shift when more than 10 are kept
HistoryAfter(history, comment) ==
  LET pushed == Append(history, comment)
  IN  IF Len(pushed) > 10 THEN Tail(pushed) ELSE pushed

\* updateHistory: lastCommentTime = typeof timestamp === "number" ?
\* timestamp : Date.now()
LastCommentTimeAfter(comment, t) ==
  IF comment.timestamp # <<>> THEN comment.timestamp ELSE <<t>>

\* the Comment built by generateAndEmitComment: metadata.timestamp is the
\* end time of the turn
MkComment(id, turn) == [id |-> id, timestamp |-> <<turn.endTime>>]

InitDecisionEngine(base, minI, maxI) ==
  /\ baseThreshold = base /\ minInterval = minI /\ maxInterval = maxI
  /\ lastCommentTime = <<>> /\ commentHistory = <<>>
  /\ dynamicThreshold = InitialThreshold(base)
  /\ nEvals = 0 /\ nComments = 0
  /\ decision = <<>>

\* queue, buffers, aggregator and facade after construction
\* two facades constructed with the API keys 1 and 2; nothing has set the
\* default key yet
InstanceIds == {1, 2}

InitInstances ==
  /\ defaultOpenAIKey = <<>>
  /\ instances = [i \in InstanceIds |->
                    [apiKey |-> i, turns |-> 0, phase |-> "idle", requests |-> 0,
                     gens |-> 0, used |-> {}]]

InitFacade ==
  /\ pendingJob = <<>> /\ processing = FALSE /\ running = {}
  /\ fullContextBuffer = <<>> /\ uncommentedBuffer = <<>>
  /\ pendingComment = <<>> /\ scheduled = {}
  /\ bufferedContent = <<>> /\ bufferedStartTime = 0 /\ lastTurnEndTime = 0
  /\ timeoutHandle = <<>> /\ timers = {}
  /\ now = 0 /\ nTurns = 0 /\ mediaPos = 0 /\ nJobs = 0 /\ nClears = 0
  /\ processed = <<>> /\ settled = {} /\ rejected = {} /\ errorJobs = {}
  /\ dropped = {} /\ detected = {} /\ overwritten = {} /\ cleared = {}
  /\ burstFirst = {}
  /\ prevEnq = <<>> /\ nEmitted = 0 /\ sinceEmit = FALSE /\ clearedAt = 0 /\ outcomes = {}
  /\ constituents = <<>> /\ produced = <<>>
  /\ InitInstances
  /\ created = <<>>
  /\ segments = <<>> /\ called = <<>>

\* options.config left out
NoConfig ==
  [baseThreshold |-> <<>>, minInterval |-> <<>>, maxInterval |-> <<>>,
   minTurnDurationMs |-> <<>>]

\* the aggregator of the default configuration
InitAggregatorConfig == maxWords = aggregationMaxWords

\* the detector of the default configuration, not called yet
InitEventDetector ==
  detectorConfig = defaultEventDetectorConfig /\ response = <<>> /\ returned = <<>>

\* the state after construction with the default configuration
Init ==
  /\ InitFacade
  /\ InitAggregatorConfig
  /\ InitEventDetector
  /\ configInput = NoConfig
  /\ InitDecisionEngine(defaultBaseThreshold, defaultMinInterval, defaultMaxInterval)

(***************************************************************************)
(* The queue on its own, with an opaque process(job) that settles later.   *)
(***************************************************************************)
\* the worker loop from its top, with `run` the invocations still in flight
QLoop(slot, run) ==
  LET r == DrainLoop(slot, now) IN
  /\ pendingJob' = r.pending
  /\ processing' = (r.started # <<>>)
  /\ running' = run \cup {[job |-> j, phase |-> "process"] : j \in Range(r.started)}
  /\ processed' = processed \o [i \in 1..Len(r.started) |-> r.started[i].id]
  /\ dropped' = dropped \cup StaleDrops(r.stale, now, "queue")

QEnqueue ==
  /\ nJobs < MaxJobs
  /\ LET id == nJobs + 1
         job == MkJob(id, MkTurn(<<"turn", id>>, <<id>>, 0, minTurnDurationMs), <<>>, <<>>, now)
         slot == EnqueueSlot(pendingJob, job)
     IN  /\ EnqueueObserved(slot, id)
         /\ IF ProcessNextReturnsEarly(processing)
            THEN /\ pendingJob' = slot
                 /\ UNCHANGED <<processing, running, processed, dropped>>
            ELSE QLoop(slot, running)
  /\ nJobs' = nJobs + 1
  /\ UNCHANGED <<fvars, avars, now, nTurns, mediaPos, nClears, settled, rejected,
                 errorJobs, detected, cleared, sinceEmit, clearedAt, nEmitted, outcomes, dvars, gvars, svars>>

\* EventDetectionQueue.clear
QClear ==
  /\ pendingJob' = <<>>
  /\ cleared' = cleared \cup {j.id : j \in Range(pendingJob)}
  /\ prevEnq' = <<>>
  /\ UNCHANGED <<processing, running, fvars, avars, evars, processed, settled,
                 rejected, errorJobs, dropped, detected, overwritten, burstFirst,
                 sinceEmit, clearedAt, nEmitted, outcomes, dvars, gvars, svars>>

QProcessResolves ==
  \E r \in running :
    /\ r.phase = "process"
    /\ settled' = settled \cup {r.job.id}
    /\ QLoop(pendingJob, running \ {r})
    /\ prevEnq' = <<>>
    /\ UNCHANGED <<fvars, avars, evars, rejected, errorJobs, detected,
                   overwritten, cleared, burstFirst, sinceEmit, clearedAt, nEmitted, outcomes, dvars, gvars, svars>>

QProcessRejects ==
  \E r \in running :
    /\ r.phase = "process"
    /\ settled' = settled \cup {r.job.id}
    /\ rejected' = rejected \cup {r.job.id}
    /\ LET c == CatchProcessError(r.job) IN
       /\ errorJobs' = errorJobs \cup (IF c.emitted THEN {r.job.id} ELSE {})
       /\ IF c.rethrown
          THEN \* the loop is left through finally
               /\ processing' = FALSE
               /\ running' = running \ {r}
               /\ UNCHANGED <<pendingJob, processed, dropped>>
          ELSE QLoop(pendingJob, running \ {r})
    /\ prevEnq' = <<>>
    /\ UNCHANGED <<fvars, avars, evars, detected, overwritten, cleared,
                   burstFirst, sinceEmit, clearedAt, nEmitted, outcomes, dvars, gvars, svars>>

\* wall-clock time passes between two handlers
Tick ==
  /\ now + TickStep <= MaxClock
  /\ now' = now + TickStep
  /\ prevEnq' = <<>>
  /\ UNCHANGED <<qvars, fvars, avars, nTurns, mediaPos, nJobs, nClears,
                 processed, settled, rejected, errorJobs, dropped, detected,
                 overwritten, cleared, burstFirst, sinceEmit, clearedAt, nEmitted, outcomes, dvars, gvars, svars>>

NextQueue == QEnqueue \/ QClear \/ QProcessResolves \/ QProcessRejects \/ Tick

SpecQueue == Init /\ [][NextQueue]_vars

(***************************************************************************)
(* The decision engine on its own, under any valid configuration.          *)
(***************************************************************************)
\* evaluate(events, timestamp): whether the score of the events exceeds the
\* threshold is the caller's input; the threshold is adjusted afterwards
EngineEvaluate ==
  /\ nEvals < MaxEvals
  /\ \E timestamp \in EngineStamps, shouldComment \in BOOLEAN :
       dynamicThreshold' =
         AdjustThreshold(dynamicThreshold, baseThreshold, minInterval, maxInterval,
                         shouldComment,
                         TimeSinceLastComment(lastCommentTime, timestamp))
  /\ nEvals' = nEvals + 1
  /\ UNCHANGED <<qvars, fvars, avars, evars, ovars, lastCommentTime, commentHistory,
                 baseThreshold, minInterval, maxInterval, nComments, svars>>

\* updateHistory(comment)
EngineUpdateHistory ==
  /\ nComments < MaxComments
  /\ \E timestamp \in EngineStamps :
       LET comment == [id |-> nComments + 1, timestamp |-> <<timestamp>>] IN
       /\ commentHistory' = HistoryAfter(commentHistory, comment)
       /\ lastCommentTime' = LastCommentTimeAfter(comment, now)
  /\ nComments' = nComments + 1
  /\ UNCHANGED <<qvars, fvars, avars, evars, ovars, dynamicThreshold,
                 baseThreshold, minInterval, maxInterval, nEvals, svars>>

InitEngine ==
  /\ InitFacade
  /\ InitAggregatorConfig
  /\ InitEventDetector
  /\ configInput = NoConfig
  /\ \E base \in BaseThresholds, iv \in Intervals :
       InitDecisionEngine(base, iv[1], iv[2])

NextEngine == EngineEvaluate \/ EngineUpdateHistory

SpecEngine == InitEngine /\ [][NextEngine]_vars

(***************************************************************************)
(* The scoring of evaluate observed: the engine is driven alone with       *)
(* comments and evaluations at media timestamps from seconds to hours, and *)
(* the timing factor and the frequency suppression of each evaluation are  *)
(* kept in decision.                                                       *)
(***************************************************************************)
\* evaluate(events, timestamp); the events decide shouldComment
ScoreEvaluate ==
  /\ nEvals < MaxScoreEvals
  /\ \E timestamp \in ScoreStamps, finalScore \in FinalScores,
        hasImportantEvent \in BOOLEAN :
       LET timeSinceLastComment == TimeSinceLastComment(lastCommentTime, timestamp)
           priority == DeterminePriority(finalScore, hasImportantEvent)
           shouldComment == finalScore > dynamicThreshold
       IN
       /\ decision' =
            <<[timestamp |-> timestamp,
               timing |-> TimingFactor(lastCommentTime, timestamp, minInterval, maxInterval),
               frequencySuppression |->
                 CalculateFrequencySuppression(commentHistory, timestamp),
               score |-> finalScore,
               threshold |-> dynamicThreshold,
               shouldComment |-> shouldComment,
               priority |-> priority,
               suggestedDelay |->
                 CalculateSuggestedDelay(priority, timeSinceLastComment, minInterval)]>>
       /\ dynamicThreshold' =
            AdjustThreshold(dynamicThreshold, baseThreshold, minInterval, maxInterval,
                            shouldComment, timeSinceLastComment)
  /\ nEvals' = nEvals + 1
  /\ UNCHANGED <<qvars, fvars, avars, evars, ovars, lastCommentTime, commentHistory,
                 baseThreshold, minInterval, maxInterval, nComments, constituents,
                 produced, detvars, twovars, cfgvars, tbvars>>

\* updateHistory(comment)
ScoreUpdateHistory ==
  /\ nComments < MaxScoreComments
  /\ \E timestamp \in ScoreStamps :
       LET comment == [id |-> nComments + 1, timestamp |-> <<timestamp>>] IN
       /\ commentHistory' = HistoryAfter(commentHistory, comment)
       /\ lastCommentTime' = LastCommentTimeAfter(comment, now)
  /\ nComments' = nComments + 1
  /\ decision' = <<>>
  /\ UNCHANGED <<qvars, fvars, avars, evars, ovars, dynamicThreshold,
                 baseThreshold, minInterval, maxInterval, nEvals, constituents,
                 produced, detvars, twovars, cfgvars, tbvars>>

InitScore ==
  /\ InitFacade
  /\ InitAggregatorConfig
  /\ InitEventDetector
  /\ configInput = NoConfig
  /\ \E iv \in ScoreIntervals :
       InitDecisionEngine(defaultBaseThreshold, iv[1], iv[2])

NextScore == ScoreEvaluate \/ ScoreUpdateHistory

SpecScore == InitScore /\ [][NextScore]_vars


(***************************************************************************)
(* TextBuffer.                                                             *)
(***************************************************************************)
\* append: push { content, timestamp: turn.endTime, position: position++ }
\* a buffer that would put the new segment in front of the others
BufPrepend(segs, turn) ==
  <<[content |-> turn.content, timestamp |-> turn.endTime, position |-> Len(segs)]>> \o segs

BufAppend(segs, turn) ==
  Append(segs, [content |-> turn.content, timestamp |-> turn.endTime,
                position |-> Len(segs)])

\* getWindow(size): the source subtracts size * 1000 from a timestamp in
\* seconds, which is size * 1000 * 1000 in the model's milliseconds
GetWindow(segs, size) ==
  LET nowTs == IF segs = <<>> THEN 0 ELSE segs[Len(segs)].timestamp
      cutoff == nowTs - (size * 1000) * 1000
      sel == SelectSegs(segs, cutoff)
  IN  Flatten([i \in 1..Len(sel) |-> sel[i].content])

\* clear: segments = [], position = 0
BufClear(segs) == <<>>

(***************************************************************************)
(* ShortTurnAggregator.                                                    *)
(***************************************************************************)
\* countWords: every token of the model is one word
CountWords(content) == Cardinality({i \in 1..Len(content) : content[i] # Space})

AggEmpty ==
  [bufferedContent |-> <<>>, bufferedStartTime |-> 0, lastTurnEndTime |-> 0,
   timeoutHandle |-> <<>>]

\* a join that would leave the separating space out
JoinWithoutSpace(before, content) == before \o content

\* bufferedContent ? `${bufferedContent} ${content}` : content
JoinContent(before, content) ==
  IF before # <<>> THEN before \o <<Space>> \o content ELSE content

\* a word limit that would flush at 0 as well
WordLimitUnguarded(limit, count) == count >= limit

\* wordLimitReached: a limit of 0 disables the trigger
WordLimitReached(limit, count) == limit > 0 /\ count >= limit

\* a clear() that would leave the aggregation and its timer as they are
AggKept(agg) == agg

\* clear(): the timer is cancelled and the fields are reset
AggClear(agg) == AggEmpty

\* add(turn) at wall-clock time t: the turn returned (or null) and the
\* aggregator's state afterwards
AggAdd(agg, turn, t) ==
  LET hasActiveBuffer == Len(agg.bufferedContent) > 0
      gapMs == IF hasActiveBuffer THEN turn.startTime - agg.lastTurnEndTime ELSE 0
      tooFarFromPrevious == hasActiveBuffer /\ gapMs > aggregationMaxGapMs
      restart == ~hasActiveBuffer \/ tooFarFromPrevious
      startTime == IF restart THEN turn.startTime ELSE agg.bufferedStartTime
      before == IF restart THEN <<>> ELSE agg.bufferedContent
      content == JoinContent(before, turn.content)
      wordCount == CountWords(content)
      elapsedMs == IF startTime > 0 THEN turn.endTime - startTime ELSE 0
      durationReached == startTime > 0 /\ elapsedMs >= minTurnDurationMs
      wordLimitReached == WordLimitReached(maxWords, wordCount)
      totalDurationExceeded ==
        aggregationMaxTotalDurationMs > 0 /\ elapsedMs >= aggregationMaxTotalDurationMs
  IN  IF durationReached \/ wordLimitReached \/ totalDurationExceeded
      THEN [ready |-> <<MkTurn(turn.id, content, startTime, turn.endTime)>>,
            agg |-> AggEmpty]
      ELSE [ready |-> <<>>,
            agg |-> [bufferedContent |-> content, bufferedStartTime |-> startTime,
                     lastTurnEndTime |-> turn.endTime,
                     timeoutHandle |-> <<[deadline |-> t + aggregationMaxDelayMs,
                                          turn |-> turn.id]>>]]

\* peek(): the buffered turn, its id the string form of bufferedStartTime
AggPeek(agg) ==
  IF agg.bufferedContent = <<>> THEN <<>>
  ELSE <<MkTurn(<<"agg", agg.bufferedStartTime>>, agg.bufferedContent,
                agg.bufferedStartTime, agg.lastTurnEndTime)>>

Agg ==
  [bufferedContent |-> bufferedContent, bufferedStartTime |-> bufferedStartTime,
   lastTurnEndTime |-> lastTurnEndTime, timeoutHandle |-> timeoutHandle]

\* a clearTimeout that would cancel nothing
TimerLeftArmed(armed, handle) == armed

\* clearTimeout(): the timer of the handle, if any, is cancelled
ClearTimeout(armed, handle) == armed \ Range(handle)

\* the aggregator's fields after a call that ran clearTimeout() on the handle
\* it held, `armed` being the timers armed when the call started
SetAggTimers(agg, armed) ==
  /\ bufferedContent' = agg.bufferedContent
  /\ bufferedStartTime' = agg.bufferedStartTime
  /\ lastTurnEndTime' = agg.lastTurnEndTime
  /\ timeoutHandle' = agg.timeoutHandle
  /\ timers' = ClearTimeout(armed, timeoutHandle) \cup Range(agg.timeoutHandle)
  /\ UNCHANGED maxWords

SetAgg(agg) == SetAggTimers(agg, timers)

(***************************************************************************)
(* The aggregator driven alone: add, the debounce timer, flush and clear,  *)
(* with turns of any gap, duration and content (empty content included).   *)
(* constituents is kept from the calls made, not from the aggregator's     *)
(* fields: an aggregation goes on until a turn is produced, flush or clear *)
(* is called, or a turn arrives more than aggregationMaxGapMs after the    *)
(* previous one.                                                           *)
(***************************************************************************)
Last(s) == s[Len(s)]

\* n copies of the word w
Words(w, n) == [i \in 1..n |-> w]

\* the turns of the aggregation a new turn belongs to
PartsWith(parts, turn) ==
  IF parts # <<>> /\ turn.startTime - Last(parts).endTime > aggregationMaxGapMs
  THEN <<turn>>
  ELSE Append(parts, turn)

\* add(turn)
AggregatorAdd ==
  /\ nTurns < MaxAdds
  /\ \E gap \in AddGaps, dur \in AddDurations, w \in AddWords :
       LET n == nTurns + 1
           turn == MkTurn(<<"turn", n>>, Words(n, w), mediaPos + gap,
                          mediaPos + gap + dur)
           added == AggAdd(Agg, turn, now)
           parts == PartsWith(constituents, turn)
       IN  /\ SetAgg(added.agg)
           /\ mediaPos' = turn.endTime
           /\ IF added.ready # <<>>
              THEN /\ produced' = <<[turn |-> added.ready[1], parts |-> parts, by |-> "add"]>>
                   /\ constituents' = <<>>
              ELSE /\ produced' = <<>>
                   /\ constituents' = parts
  /\ nTurns' = nTurns + 1
  /\ UNCHANGED <<qvars, fvars, now, nJobs, nClears, ovars, dvars, gvars, detvars, decision, twovars, cfgvars, tbvars>>

\* the debounce timer fires: the buffered turn, if any, goes to the timeout
\* listeners, then the buffer is reset
AggregatorTimeout ==
  /\ \E f \in timers :
       /\ now >= f.deadline
       /\ SetAggTimers(AggEmpty, timers \ {f})
  /\ LET pending == AggPeek(Agg) IN
     produced' = IF pending = <<>> THEN <<>>
                 ELSE <<[turn |-> pending[1], parts |-> constituents, by |-> "timeout"]>>
  /\ constituents' = <<>>
  /\ UNCHANGED <<qvars, fvars, evars, ovars, dvars, gvars, detvars, decision, twovars, cfgvars, tbvars>>

\* flush() and clear(): the buffer is reset and the timer cancelled
AggregatorClear ==
  /\ nClears < MaxClears
  /\ SetAgg(AggEmpty)
  /\ constituents' = <<>>
  /\ produced' = <<>>
  /\ nClears' = nClears + 1
  /\ UNCHANGED <<qvars, fvars, now, nTurns, mediaPos, nJobs, ovars, dvars, gvars, detvars, decision, twovars, cfgvars, tbvars>>

\* the aggregator constructed with a word limit of the caller's choice
InitWords ==
  /\ InitFacade
  /\ InitEventDetector
  /\ configInput = NoConfig
  /\ InitDecisionEngine(defaultBaseThreshold, defaultMinInterval, defaultMaxInterval)
  /\ maxWords \in MaxWordsInputs

NextAgg == AggregatorAdd \/ AggregatorTimeout \/ AggregatorClear \/ Tick

SpecAgg == Init /\ [][NextAgg]_vars

SpecWords == InitWords /\ [][NextAgg]_vars

(***************************************************************************)
(* EventDetector.detectWithAI: the events of the model's response are      *)
(* filtered by filterDetectedEvents and mapped to Event records.  The      *)
(* detector is driven alone: the configuration and the response are drawn  *)
(* in the initial state, and Detect applies the filter.                    *)
(***************************************************************************)
EventTypes ==
  {"emotion_peak", "topic_change", "question_raised", "conclusion_reached",
   "summary_point", "key_point"}

\* an event of the response; n stands for its triggers and reasoning
DetectedEvents ==
  [type : EventTypes, confidence : Levels, intensity : Levels, n : {0}]

\* the responses of at most MaxEvents events, the n-th one tagged n
Responses ==
  UNION {{[i \in 1..len |-> [f[i] EXCEPT !.n = i]] : f \in [1..len -> DetectedEvents]}
         : len \in 0..MaxEvents}

KeyPointUnchecked(event, config) ==
  ~ \/ event.confidence < config.detectionSensitivity
    \/ /\ event.type \in {"emotion_peak", "topic_change"}
       /\ event.intensity < config.emotionThreshold
    \/ /\ event.type \in {"topic_change", "question_raised", "conclusion_reached",
                          "summary_point"}
       /\ event.intensity < config.topicTransitionThreshold

FilterDetectedEvents(event, config) ==
  IF event.confidence < config.detectionSensitivity THEN FALSE
  ELSE IF /\ event.type = "emotion_peak" \/ event.type = "topic_change"
          /\ event.intensity < config.emotionThreshold THEN FALSE
  ELSE IF /\ \/ event.type = "topic_change"
             \/ event.type = "question_raised"
             \/ event.type = "conclusion_reached"
             \/ event.type = "summary_point"
          /\ event.intensity < config.topicTransitionThreshold THEN FALSE
  ELSE IF /\ event.type = "key_point"
          /\ event.intensity < config.keypointDensityThreshold THEN FALSE
  ELSE TRUE

\* analysis.events.filter(...).map(...)
RECURSIVE DetectWithAI(_, _)
DetectWithAI(events, config) ==
  IF events = <<>> THEN <<>>
  ELSE LET event == Head(events)
           rest == DetectWithAI(Tail(events), config)
       IN  IF FilterDetectedEvents(event, config)
           THEN <<[type |-> event.type, confidence |-> event.confidence,
                   intensity |-> event.intensity, n |-> event.n]>> \o rest
           ELSE rest

InitDetector ==
  /\ InitFacade
  /\ InitAggregatorConfig
  /\ configInput = NoConfig
  /\ InitDecisionEngine(defaultBaseThreshold, defaultMinInterval, defaultMaxInterval)
  /\ returned = <<>>
  /\ response \in Responses
  /\ detectorConfig \in [detectionSensitivity : Thresholds, emotionThreshold : Thresholds,
                         topicTransitionThreshold : Thresholds,
                         keypointDensityThreshold : Thresholds]

\* detect(...) resolves with the filtered events
Detect ==
  /\ returned = <<>>
  /\ returned' = <<DetectWithAI(response, detectorConfig)>>
  /\ UNCHANGED <<qvars, fvars, avars, evars, ovars, dvars, gvars, constituents,
                 produced, detectorConfig, response, decision, twovars,
                 cfgvars, tbvars>>

NextDetector == Detect

SpecDetector == InitDetector /\ [][NextDetector]_vars

(***************************************************************************)
(* Two CommentSystem instances in one process.  The buffers, the queue and *)
(* the decision engine are fields of an instance; generateComment hands    *)
(* the instance's key to @openai/agents with setDefaultOpenAIKey, which    *)
(* sets a process-wide default, and returns the run.  The library is not   *)
(* part of the sources: a model request of a run is sent with the key the  *)
(* call set or with the default key of that moment.                        *)
(***************************************************************************)
\* what a step of an instance leaves alone
OneFacadeUnchanged ==
  UNCHANGED <<qvars, fvars, avars, evars, ovars, dvars, gvars, constituents,
              produced, detvars, decision, cfgvars, tbvars>>

\* onTurnCompleted on an instance: its buffers grow
TwoOnTurnCompleted ==
  /\ \E i \in InstanceIds :
       /\ instances[i].turns < MaxTwoTurns
       /\ instances' = [instances EXCEPT ![i].turns = @ + 1]
  /\ UNCHANGED defaultOpenAIKey
  /\ OneFacadeUnchanged

\* generateComment of an instance up to its await: setDefaultOpenAIKey, then
\* run(agent, userInput, ...)
TwoGenerateComment ==
  /\ \E i \in InstanceIds :
       /\ instances[i].phase = "idle"
       /\ instances[i].gens < MaxGens
       /\ defaultOpenAIKey' = <<instances[i].apiKey>>
       /\ instances' = [instances EXCEPT ![i].phase = "running", ![i].requests = 0]
  /\ OneFacadeUnchanged

\* the run of an instance sends a model request
TwoModelRequest ==
  /\ \E i \in InstanceIds :
       /\ instances[i].phase = "running"
       /\ instances[i].requests < MaxRequests
       /\ \E key \in {instances[i].apiKey} \cup Range(defaultOpenAIKey) :
            instances' = [instances EXCEPT ![i].requests = @ + 1,
                                           ![i].used = @ \cup {key}]
  /\ UNCHANGED defaultOpenAIKey
  /\ OneFacadeUnchanged

\* commentResponse.completed settles
TwoCompleted ==
  /\ \E i \in InstanceIds :
       /\ instances[i].phase = "running"
       /\ instances[i].requests >= 1
       /\ instances' = [instances EXCEPT ![i].phase = "idle", ![i].gens = @ + 1]
  /\ UNCHANGED defaultOpenAIKey
  /\ OneFacadeUnchanged

NextTwo == TwoOnTurnCompleted \/ TwoGenerateComment \/ TwoModelRequest \/ TwoCompleted

SpecTwo == Init /\ [][NextTwo]_vars

(***************************************************************************)
(* new CommentSystem(options): each section of the configuration is the    *)
(* defaults spread under the section given in options.config, and the      *)
(* components are constructed from the result.  The options are drawn in   *)
(* the initial state and Construct is the constructor.                     *)
(***************************************************************************)
Opt(values) == {<<>>} \cup {<<v>> : v \in values}

\* { ...defaults, ...options.config?.section }, field by field
Spread(default, given) == IF given = <<>> THEN default ELSE given[1]

MergedConfig(input) ==
  [baseThreshold |-> Spread(defaultBaseThreshold, input.baseThreshold),
   minInterval |-> Spread(defaultMinInterval, input.minInterval),
   maxInterval |-> Spread(defaultMaxInterval, input.maxInterval),
   minTurnDurationMs |-> Spread(minTurnDurationMs, input.minTurnDurationMs)]

\* the constructor rejects nothing
ConstructorOutcome(config) == "running"

InitConfig ==
  /\ InitFacade
  /\ InitAggregatorConfig
  /\ InitEventDetector
  /\ InitDecisionEngine(defaultBaseThreshold, defaultMinInterval, defaultMaxInterval)
  /\ configInput \in [baseThreshold : Opt(BaseThresholdInputs),
                      minInterval : Opt(MinIntervalInputs),
                      maxInterval : Opt(MaxIntervalInputs),
                      minTurnDurationMs : Opt(MinTurnDurationInputs)]

\* the constructor: the merged configuration, then the components; the
\* decision engine starts from the merged baseThreshold and intervals
Construct ==
  /\ created = <<>>
  /\ LET config == MergedConfig(configInput) IN
     /\ created' = <<[status |-> ConstructorOutcome(config), config |-> config]>>
     /\ baseThreshold' = config.baseThreshold
     /\ minInterval' = config.minInterval
     /\ maxInterval' = config.maxInterval
     /\ dynamicThreshold' = InitialThreshold(config.baseThreshold)
  /\ UNCHANGED <<qvars, fvars, avars, evars, ovars, lastCommentTime, commentHistory,
                 nEvals, nComments, constituents, produced, detvars, decision,
                 twovars, configInput, tbvars>>

NextConfig == Construct

SpecConfig == InitConfig /\ [][NextConfig]_vars

(***************************************************************************)
(* A TextBuffer driven alone: append, getWindow, search and clear on one   *)
(* instance.  A content is a sequence of words; a pattern is one word, and *)
(* it matches a content at the positions where the word stands.            *)
(***************************************************************************)
MaxSegments == 3
SegmentContents == {<<1>>, <<2>>, <<1, 2>>, <<2, 1>>}
\* turn.endTime of the appended turns, in media ms
SegmentStamps == {0, 5000, 40000, 2000000}
\* getWindow(size), in seconds
WindowSizes == {1, 30}
Patterns == {1, 2}
Limits == {1, 2}
\* search(pattern, limit = 10)
defaultLimit == 10

\* RegExp.prototype.test of a regular expression with the g flag: the search
\* starts at lastIndex; a match leaves lastIndex at its end, a failure
\* resets it to 0
RegexTest(content, pattern, lastIndex) ==
  LET hits == {i \in (lastIndex + 1)..Len(content) : content[i] = pattern} IN
  IF hits = {} THEN [matched |-> FALSE, lastIndex |-> 0]
  ELSE [matched |-> TRUE, lastIndex |-> CHOOSE i \in hits : \A j \in hits : i <= j]

RECURSIVE SearchFrom(_, _, _, _, _, _)
\* the loop of search over segments.slice().reverse(), from segment i down,
\* with the one regex object shared by all the iterations
SearchFrom(segs, i, pattern, limit, lastIndex, results) ==
  IF i = 0 THEN results
  ELSE LET t == RegexTest(segs[i].content, pattern, lastIndex) IN
       IF t.matched
       THEN LET pushed == Append(results, [content |-> segs[i].content,
                                           timestamp |-> segs[i].timestamp])
            IN  IF Len(pushed) >= limit THEN pushed
                ELSE SearchFrom(segs, i - 1, pattern, limit, t.lastIndex, pushed)
       ELSE SearchFrom(segs, i - 1, pattern, limit, t.lastIndex, results)

\* search(pattern, limit): regex = new RegExp(pattern, "gi"), lastIndex 0
Search(segs, pattern, limit) == SearchFrom(segs, Len(segs), pattern, limit, 0, <<>>)

\* append(turn); media time does not run backwards
TBAppend ==
  /\ Len(segments) < MaxSegments
  /\ \E content \in SegmentContents, endTime \in SegmentStamps :
       /\ segments # <<>> => endTime >= segments[Len(segments)].timestamp
       /\ segments' = BufAppend(segments, [content |-> content, endTime |-> endTime])
  /\ called' = <<>>
  /\ UNCHANGED <<qvars, fvars, avars, evars, ovars, dvars, gvars, constituents,
                 produced, detvars, decision, twovars, cfgvars>>

\* getWindow(size = this.config.windowDuration)
TBGetWindow ==
  /\ \E given \in Opt(WindowSizes) :
       LET size == Spread(windowDuration, given) IN
       called' = <<[op |-> "getWindow", size |-> size,
                    text |-> GetWindow(segments, size)]>>
  /\ UNCHANGED <<qvars, fvars, avars, evars, ovars, dvars, gvars, constituents,
                 produced, detvars, decision, twovars, cfgvars, segments>>

\* search(pattern, limit = 10)
TBSearch ==
  /\ \E pattern \in Patterns, given \in Opt(Limits) :
       LET limit == Spread(defaultLimit, given) IN
       called' = <<[op |-> "search", pattern |-> pattern, limit |-> limit,
                    results |-> Search(segments, pattern, limit)]>>
  /\ UNCHANGED <<qvars, fvars, avars, evars, ovars, dvars, gvars, constituents,
                 produced, detvars, decision, twovars, cfgvars, segments>>

\* clear()
TBClear ==
  /\ segments' = BufClear(segments)
  /\ called' = <<>>
  /\ UNCHANGED <<qvars, fvars, avars, evars, ovars, dvars, gvars, constituents,
                 produced, detvars, decision, twovars, cfgvars>>

NextBuffer == TBAppend \/ TBGetWindow \/ TBSearch \/ TBClear

SpecBuffer == Init /\ [][NextBuffer]_vars

(***************************************************************************)
(* CommentSystem.                                                          *)
(***************************************************************************)
FireAndForget == FALSE

\* processJob awaits the delay and generateAndEmitComment before it returns
ProcessJobAwaitsComment == TRUE

NeverCleared(outcome, segs) == segs

ClearedOnReject(outcome, segs) ==
  IF outcome \in {"comment-generated", "comment-rejected"} THEN <<>> ELSE segs

\* generateAndEmitComment: the uncommented buffer after the generation
\* call has settled with `outcome`
UncommentedAfter(outcome, segs) ==
  IF outcome = "comment-generated" THEN BufClear(segs) ELSE segs

\* generateAndEmitComment never touches the context buffer
ContextAfter(outcome, segs) == segs

GenOutcomes == {"comment-generated", "comment-rejected", "empty", "error"}

\* the event generateAndEmitComment emits when the generation call has
\* settled with `outcome`; an empty content is only logged
EventOf(outcome) == IF outcome = "empty" THEN "none" ELSE outcome

HistoryOnAnyOutcome(outcome, history, comment) ==
  IF outcome \in {"comment-generated", "comment-rejected"}
  THEN Append(history, comment) ELSE history

\* decisionEngine.updateHistory(comment) is called on the accepted path only
HistoryOn(outcome, history, comment) ==
  IF outcome = "comment-generated" THEN HistoryAfter(history, comment) ELSE history

LastCommentTimeOn(outcome, last, comment) ==
  IF outcome = "comment-generated" THEN LastCommentTimeAfter(comment, now) ELSE last

\* an aborted delay rejects in a microtask: no timer or I/O callback runs
\* before it, only code of the caller that aborted
MicrotaskPending == \E s \in scheduled : s.phase = "aborted"

\* deadlines of the armed timers: the aggregator's debounce timer and the
\* delays of scheduled comments
ArmedDeadlines ==
  {f.deadline : f \in timers} \cup {s.deadline : s \in {x \in scheduled : x.phase = "delay"}}

\* the event loop runs due timers in the order of their deadlines
TimerFires(deadline) ==
  /\ now >= deadline
  /\ \A d \in ArmedDeadlines : d >= deadline

\* pendingComment.abort(): a delay still waiting rejects; a generation call
\* already started goes on (no signal is passed to generateComment)
AbortPending(sched, pc) ==
  {IF s.job.id \in Range(pc)
   THEN [s EXCEPT !.aborted = TRUE,
                  !.phase = IF s.phase = "delay" THEN "aborted" ELSE s.phase]
   ELSE s : s \in sched}

\* the worker loop from its top at wall-clock time `now`, with process =
\* processJob up to its first await; `run` are the invocations still in flight
FLoop(slot, run) ==
  LET r == DrainLoop(slot, now) IN
  /\ pendingJob' = r.pending
  /\ processed' = processed \o [i \in 1..Len(r.started) |-> r.started[i].id]
  /\ IF r.started = <<>>
     THEN /\ processing' = FALSE
          /\ running' = run
          /\ dropped' = dropped \cup StaleDrops(r.stale, now, "queue")
          /\ UNCHANGED <<now, detected>>
     ELSE \E skew \in Skews :
            LET job == r.started[1]
                t2 == now + skew
            IN  /\ skew > 0 => now - job.enqueuedAtMs = MAX_TURN_STALENESS_MS
                /\ t2 <= MaxClock
                /\ now' = t2
                /\ IF IsTurnStale(job.turn, job.enqueuedAtMs, t2)
                   THEN \* processJob returns at once; the loop finds the slot empty
                        /\ processing' = FALSE
                        /\ running' = run
                        /\ dropped' = dropped \cup StaleDrops(r.stale, now, "queue")
                                              \cup StaleDrops(r.started, t2, "processJob")
                        /\ UNCHANGED detected
                   ELSE /\ processing' = TRUE
                        /\ running' = run \cup {[job |-> job, phase |-> "detect"]}
                        /\ dropped' = dropped \cup StaleDrops(r.stale, now, "queue")
                        /\ detected' = detected \cup
                             {[id |-> job.id, age |-> t2 - job.enqueuedAtMs]}

\* detectionQueue.enqueue({turn, fullContext, uncommentedText}) with the
\* buffers as they are after this handler's appends
FacadeEnqueue(turn, ctx, unc) ==
  LET id == nJobs + 1
      job == MkJob(id, turn, GetWindow(unc, windowDuration),
                   GetWindow(ctx, windowDuration), now)
      slot == EnqueueSlot(pendingJob, job)
  IN  /\ EnqueueObserved(slot, id)
      /\ nJobs' = id
      /\ IF ProcessNextReturnsEarly(processing)
         THEN /\ pendingJob' = slot
              /\ UNCHANGED <<processing, running, processed, dropped, detected, now>>
         ELSE FLoop(slot, running)

NoEnqueue ==
  /\ prevEnq' = <<>>
  /\ UNCHANGED <<qvars, nJobs, processed, dropped, detected, now, overwritten,
                 burstFirst>>

OnTurnCompleted ==
  /\ nTurns < MaxTurns
  /\ \E gap \in TurnGaps, dur \in TurnDurations :
       LET n == nTurns + 1
           turn == MkTurn(<<"turn", n>>, <<n>>, mediaPos + gap, mediaPos + gap + dur)
           ctx == BufAppend(fullContextBuffer, turn)
           unc == BufAppend(uncommentedBuffer, turn)
           long == turn.endTime - turn.startTime >= minTurnDurationMs
           added == AggAdd(Agg, turn, now)
           readyTurn == IF long THEN <<turn>> ELSE added.ready
       IN  /\ fullContextBuffer' = ctx
           /\ uncommentedBuffer' = unc
           /\ SetAgg(IF long THEN AggClear(Agg) ELSE added.agg)
           /\ mediaPos' = turn.endTime
           /\ IF readyTurn = <<>> THEN NoEnqueue
              ELSE FacadeEnqueue(readyTurn[1], ctx, unc)
  /\ nTurns' = nTurns + 1
  /\ sinceEmit' = FALSE
  /\ UNCHANGED <<pendingComment, scheduled, nClears, settled, rejected, errorJobs,
                 cleared, clearedAt, nEmitted, outcomes, dvars, gvars, svars>>

\* the aggregator's debounce timer fires; the facade's timeout listener
\* enqueues the buffered turn with the buffers' snapshots of that moment
AggTimeout ==
  /\ ~MicrotaskPending
  /\ \E f \in timers :
       /\ TimerFires(f.deadline)
       /\ SetAggTimers(AggEmpty, timers \ {f})
  /\ LET pending == AggPeek(Agg) IN
     IF pending = <<>> THEN NoEnqueue
     ELSE FacadeEnqueue(pending[1], fullContextBuffer, uncommentedBuffer)
  /\ UNCHANGED <<fvars, nTurns, mediaPos, nClears, settled, rejected, errorJobs,
                 cleared, sinceEmit, clearedAt, nEmitted, outcomes, dvars, gvars, svars>>

\* eventDetector.detect resolves; decisionEngine.evaluate decides from the
\* detector's events, which are the external model's output
DetectResolves ==
  /\ ~MicrotaskPending
  /\ \E r \in running : \E shouldComment \in BOOLEAN :
       /\ r.phase = "detect"
       /\ dynamicThreshold' =
            AdjustThreshold(dynamicThreshold, baseThreshold, minInterval, maxInterval,
                            shouldComment,
                            TimeSinceLastComment(lastCommentTime, r.job.turn.endTime))
       /\ IF shouldComment
          THEN /\ pendingComment' = <<r.job.id>>
               /\ scheduled' = AbortPending(scheduled, pendingComment) \cup
                    {[job |-> r.job, phase |-> "delay", deadline |-> now + DelayHigh,
                      uncommentedText |-> <<>>, aborted |-> FALSE]}
               /\ IF ProcessJobAwaitsComment
                  THEN /\ running' = (running \ {r}) \cup {[job |-> r.job, phase |-> "comment"]}
                       /\ UNCHANGED <<pendingJob, processing, processed, dropped,
                                      detected, now, settled>>
                  ELSE /\ settled' = settled \cup {r.job.id}
                       /\ FLoop(pendingJob, running \ {r})
          ELSE /\ settled' = settled \cup {r.job.id}
               /\ FLoop(pendingJob, running \ {r})
               /\ UNCHANGED <<pendingComment, scheduled>>
  /\ prevEnq' = <<>>
  /\ UNCHANGED <<fullContextBuffer, uncommentedBuffer, avars, nTurns, mediaPos, nJobs,
                 nClears, rejected, errorJobs, overwritten, cleared, burstFirst,
                 sinceEmit, clearedAt, nEmitted, outcomes, lastCommentTime,
                 commentHistory, gvars, svars>>

\* eventDetector.detect rejects: processJob rejects, the queue's catch emits
\* the error with the job and the loop goes on
DetectRejects ==
  /\ ~MicrotaskPending
  /\ \E r \in running :
       /\ r.phase = "detect"
       /\ settled' = settled \cup {r.job.id}
       /\ rejected' = rejected \cup {r.job.id}
       /\ LET c == CatchProcessError(r.job) IN
          /\ errorJobs' = errorJobs \cup (IF c.emitted THEN {r.job.id} ELSE {})
          /\ IF c.rethrown
             THEN /\ processing' = FALSE
                  /\ running' = running \ {r}
                  /\ UNCHANGED <<pendingJob, processed, dropped, detected, now>>
             ELSE FLoop(pendingJob, running \ {r})
  /\ prevEnq' = <<>>
  /\ UNCHANGED <<fvars, avars, nTurns, mediaPos, nJobs, nClears, overwritten,
                 cleared, burstFirst, sinceEmit, clearedAt, nEmitted, outcomes, dvars, gvars, svars>>

\* delay(suggestedDelay) resolves: generateAndEmitComment reads both windows
\* and calls generateComment
DelayElapses ==
  /\ ~MicrotaskPending
  /\ \E s \in scheduled :
       /\ s.phase = "delay"
       /\ TimerFires(s.deadline)
       /\ scheduled' = (scheduled \ {s}) \cup
            {[s EXCEPT !.phase = "generate",
                       !.uncommentedText = GetWindow(uncommentedBuffer, windowDuration)]}
  /\ prevEnq' = <<>>
  /\ UNCHANGED <<qvars, fullContextBuffer, uncommentedBuffer, pendingComment, avars,
                 evars, processed, settled, rejected, errorJobs, dropped, detected,
                 overwritten, cleared, burstFirst, sinceEmit, clearedAt, nEmitted, outcomes, dvars, gvars, svars>>

PendingCommentKept(pc) == pc

\* processJob: finally { this.pendingComment = null }
PendingCommentAfter(pc) == <<>>

\* the scheduled comment s is over: processJob's finally resets
\* pendingComment and the process call of its job, if it awaits, settles
FinishComment(s, failed) ==
  LET waiters == {r \in running : r.phase = "comment" /\ r.job.id = s.job.id} IN
  /\ scheduled' = scheduled \ {s}
  /\ pendingComment' = PendingCommentAfter(pendingComment)
  /\ IF waiters = {}
     THEN UNCHANGED <<qvars, processed, dropped, detected, now, settled, rejected,
                      errorJobs>>
     ELSE /\ settled' = settled \cup {s.job.id}
          /\ rejected' = rejected \cup (IF failed THEN {s.job.id} ELSE {})
          /\ errorJobs' = errorJobs \cup
               (IF failed /\ CatchProcessError(s.job).emitted THEN {s.job.id} ELSE {})
          /\ FLoop(pendingJob, running \ waiters)

\* the generation call settles: accepted, rejected, empty or thrown (the
\* throw is caught inside generateAndEmitComment and emitted as error)
GenerationSettles ==
  /\ ~MicrotaskPending
  /\ \E s \in scheduled : \E outcome \in GenOutcomes :
       /\ s.phase = "generate"
       /\ uncommentedBuffer' = UncommentedAfter(outcome, uncommentedBuffer)
       /\ fullContextBuffer' = ContextAfter(outcome, fullContextBuffer)
       /\ sinceEmit' = (sinceEmit \/ outcome = "comment-generated")
       /\ nEmitted' = nEmitted + (IF outcome = "comment-generated" THEN 1 ELSE 0)
       /\ outcomes' = outcomes \cup
            {[id |-> s.job.id, event |-> EventOf(outcome), aborted |-> s.aborted]}
       /\ commentHistory' = HistoryOn(outcome, commentHistory, MkComment(s.job.id, s.job.turn))
       /\ lastCommentTime' = LastCommentTimeOn(outcome, lastCommentTime,
                                               MkComment(s.job.id, s.job.turn))
       /\ FinishComment(s, FALSE)
  /\ prevEnq' = <<>>
  /\ UNCHANGED <<avars, nTurns, mediaPos, nJobs, nClears, overwritten, cleared,
                 burstFirst, clearedAt, dynamicThreshold, gvars, svars>>

\* the aborted delay rejects with an AbortError: processJob rejects and the
\* queue's catch emits the error with the job
AbortContinuation ==
  /\ \E s \in scheduled :
       /\ s.phase = "aborted"
       /\ FinishComment(s, TRUE)
  /\ prevEnq' = <<>>
  /\ UNCHANGED <<fullContextBuffer, uncommentedBuffer, avars, nTurns, mediaPos, nJobs,
                 nClears, overwritten, cleared, burstFirst, sinceEmit, clearedAt, nEmitted, outcomes, dvars, gvars, svars>>

\* CommentSystem.clear (and [Symbol.dispose])
Clear ==
  /\ nClears < MaxClears
  /\ fullContextBuffer' = BufClear(fullContextBuffer)
  /\ uncommentedBuffer' = BufClear(uncommentedBuffer)
  /\ SetAgg(AggEmpty)
  /\ scheduled' = AbortPending(scheduled, pendingComment)
  /\ pendingComment' = <<>>
  /\ nClears' = nClears + 1
  /\ clearedAt' = nTurns
  /\ prevEnq' = <<>>
  /\ UNCHANGED <<qvars, now, nTurns, mediaPos, nJobs, processed, settled, rejected,
                 errorJobs, dropped, detected, overwritten, cleared, burstFirst,
                 sinceEmit, nEmitted, outcomes, dvars, gvars, svars>>

\* wall-clock time passes between two macrotasks
FTick == ~MicrotaskPending /\ Tick

Next ==
  \/ OnTurnCompleted \/ AggTimeout \/ DetectResolves \/ DetectRejects
  \/ DelayElapses \/ GenerationSettles \/ AbortContinuation \/ Clear \/ FTick

Spec == Init /\ [][Next]_vars

(***************************************************************************)
(* Claims about the queue, checked under SpecQueue.                        *)
(***************************************************************************)

\* C1: the pending slot never holds more than one job; whenever it holds a
\* job, that job is the newest one enqueued (an enqueue on a full slot
\* overwrote the older job), and no overwritten job was ever passed to
\* process.
C1_SingleSlotLatestWins ==
  /\ Len(pendingJob) <= 1
  /\ \A j \in Range(pendingJob) : j.id = nJobs
  /\ overwritten \cap Range(processed) = {}

\* an enqueue has overwritten a pending job and the slot holds the newest
C1_Witness ==
  /\ overwritten # {}
  /\ \E j \in Range(pendingJob) : j.id = nJobs /\ (j.id - 1) \in overwritten

\* C2: at most one process(job) invocation is in flight, and the worker
\* flag is set while it is; an enqueue made meanwhile only fills the slot.
C2_OneProcessInFlight ==
  /\ Cardinality(running) <= 1
  /\ running # {} => processing

\* a job was enqueued while another job's process call is in flight
C2_Witness ==
  /\ Cardinality(running) = 1
  /\ pendingJob # <<>>
  /\ prevEnq # <<>>

\* C3: a step in which the worker picks a job up picks the most recently
\* enqueued job, and that job is newer than every job processed before.
C3_PicksFreshestInOrder ==
  [][Len(processed') > Len(processed) =>
       /\ Len(processed') = Len(processed) + 1
       /\ processed'[Len(processed')] = nJobs'
       /\ \A i \in 1..Len(processed) : processed[i] < processed'[Len(processed')]]_vars

\* the worker has picked up a job that had replaced an older pending job
C3_Witness ==
  /\ Len(processed) >= 2
  /\ (processed[Len(processed)] - 1) \in overwritten

\* C4 as stated: of two jobs enqueued back-to-back while the worker is
\* idle, the first is never passed to process.
C4_FirstOfBurstNeverProcessed == burstFirst \cap Range(processed) = {}

\* C4 amended: the first job J1 of such a burst is passed to process inside
\* its own enqueue call; the second job J2 waits in the slot and is passed
\* to process only after J1's call has settled, unless it is overwritten,
\* cleared or dropped as stale first.
C4_FirstOfBurstRunsSecondWaits ==
  \A j \in burstFirst :
    /\ j \in Range(processed)
    /\ (j + 1) \in Range(processed) => j \in settled
    /\ (j + 1) \notin Range(processed) =>
         \/ \E p \in Range(pendingJob) : p.id = j + 1
         \/ (j + 1) \in overwritten \cup cleared \cup {d.id : d \in dropped}

\* both jobs of a burst have been processed, one after the other
C4_Witness ==
  \E j \in burstFirst : \E i \in 1..Len(processed) :
    i < Len(processed) /\ processed[i] = j /\ processed[i + 1] = j + 1

\* C6: every job whose process call rejected was emitted on the error
\* channel (and no other job was); no job is passed to process twice; the
\* worker never sits idle on a pending job, and with nothing in flight the
\* slot is empty and processing is false.
C6_ErrorSurfacedLoopContinues ==
  /\ errorJobs = rejected
  /\ \A i, k \in 1..Len(processed) : i # k => processed[i] # processed[k]
  /\ pendingJob # <<>> => processing /\ running # {}
  /\ running = {} => ~processing /\ pendingJob = <<>>

\* a process call rejected and the worker went on to the next pending job
C6_Witness ==
  \E i \in 1..Len(processed) :
    /\ processed[i] \in rejected
    /\ i < Len(processed)
    /\ processed[i + 1] \notin settled

(***************************************************************************)
(* Claims about the facade, checked under Spec.                            *)
(***************************************************************************)
\* C5: a job whose enqueue age exceeds MAX_TURN_STALENESS_MS when the worker
\* dequeues it or when processJob starts is dropped and never reaches the
\* detector; a job aged at most the limit at both reads is not dropped; a
\* job dropped at dequeue is never passed to process.  Ages are wall-clock
\* differences: the turn's media times play no part.
C5_StaleJobsNeverDetected ==
  /\ \A d \in detected : d.age <= MAX_TURN_STALENESS_MS
  /\ \A d \in dropped : d.age > MAX_TURN_STALENESS_MS
  /\ {d.id : d \in dropped} \cap {d.id : d \in detected} = {}
  /\ {d.id : d \in dropped} \cap {r.job.id : r \in running} = {}
  /\ {d.id : d \in {x \in dropped : x.by = "queue"}} \cap Range(processed) = {}
  /\ \A i \in 1..Len(processed) :
       processed[i] \in {d.id : d \in detected} \cup {d.id : d \in dropped}

\* a job aged exactly the limit at dequeue was passed to process and then
\* dropped by processJob one millisecond later
C5_Witness ==
  \E d \in dropped :
    /\ d.by = "processJob"
    /\ d.age = MAX_TURN_STALENESS_MS + 1
    /\ d.id \in Range(processed)

\* turns received so far whose content is in the context buffer
TurnsInContext ==
  {n \in 1..nTurns :
     \E i \in 1..Len(fullContextBuffer) : n \in Range(fullContextBuffer[i].content)}

\* C7 as stated: from a comment-generated event until the next
\* onTurnCompleted the uncommented buffer has no segment and an empty window,
\* and the context buffer contains every turn received so far.
C7_EmittedThenContextHasEveryTurn ==
  sinceEmit =>
    /\ Len(uncommentedBuffer) = 0
    /\ GetWindow(uncommentedBuffer, windowDuration) = <<>>
    /\ TurnsInContext = 1..nTurns

\* C7 amended: the same, with the context buffer containing every turn
\* received since the last clear() of the facade (every turn if there was
\* none).
C7_EmittedThenContextHasTurnsSinceClear ==
  sinceEmit =>
    /\ Len(uncommentedBuffer) = 0
    /\ GetWindow(uncommentedBuffer, windowDuration) = <<>>
    /\ (clearedAt + 1)..nTurns \subseteq TurnsInContext

\* a comment was generated for a turn that is still in the context buffer
C7_Witness ==
  /\ sinceEmit
  /\ nEmitted >= 1
  /\ nClears = 0
  /\ Len(fullContextBuffer) >= 1
  /\ uncommentedBuffer = <<>>

JobsAlive == Range(pendingJob) \cup {r.job : r \in running}

\* C9: every job carries a fullContext and an uncommentedText that contain
\* the content of its own turn (of every constituent of an aggregate).
C9_JobSnapshotsContainOwnTurn ==
  \A j \in JobsAlive :
    /\ Range(j.turn.content) \subseteq Range(j.fullContext)
    /\ Range(j.turn.content) \subseteq Range(j.uncommentedText)

\* C10: while a comment of a job is scheduled (its delay or its generation
\* is pending), the process call of that job is the one in flight, so the
\* worker dequeues no other job before the outcome.
C10_OutcomeBeforeNextDequeue ==
  \A s \in scheduled : running = {[job |-> s.job, phase |-> "comment"]}

\* the generation of one job is pending while the next job waits in the slot
C10_Witness ==
  /\ \E s \in scheduled : s.phase = "generate"
  /\ pendingJob # <<>>
  /\ processing

LiveComments == {s \in scheduled : s.phase \in {"delay", "generate"}}

C13_RejectionLeavesStateAlone ==
  [][\A o \in outcomes' \ outcomes :
       o.event = "comment-rejected" =>
         /\ nEmitted' = nEmitted
         /\ lastCommentTime' = lastCommentTime
         /\ commentHistory' = commentHistory
         /\ fullContextBuffer' = fullContextBuffer
         /\ uncommentedBuffer' = uncommentedBuffer]_vars

\* a generation was rejected and the turn is still uncommented
C13_Witness ==
  /\ \E o \in outcomes : o.event = "comment-rejected" /\ ~o.aborted
  /\ nEmitted = 0
  /\ commentHistory = <<>>
  /\ uncommentedBuffer # <<>>

\* C14: a step in which the generation call's exception is emitted as error
\* leaves both buffers, commentHistory and lastCommentTime as they are and
\* ends with pendingComment null; a later positive decision then schedules
\* its comment as usual (C12).
C14_GenerationErrorLeavesStateAlone ==
  [][\A o \in outcomes' \ outcomes :
       o.event = "error" =>
         /\ nEmitted' = nEmitted
         /\ lastCommentTime' = lastCommentTime
         /\ commentHistory' = commentHistory
         /\ fullContextBuffer' = fullContextBuffer
         /\ uncommentedBuffer' = uncommentedBuffer
         /\ pendingComment' = <<>>]_vars

\* after a generation threw, a later job's comment is scheduled
C14_Witness ==
  \E o \in outcomes :
    /\ o.event = "error"
    /\ \E s \in scheduled :
         s.job.id > o.id /\ s.phase = "generate" /\ pendingComment = <<s.job.id>>

\* C15: a clear() of the facade ends with both buffers empty, the aggregator
\* without buffered content or armed timer, the pending-comment token
\* aborted and null, and the detection queue's pending slot empty.
C15_ClearLeavesNothingPending ==
  [][nClears' = nClears + 1 =>
       /\ fullContextBuffer' = <<>>
       /\ uncommentedBuffer' = <<>>
       /\ bufferedContent' = <<>>
       /\ timeoutHandle' = <<>>
       /\ pendingComment' = <<>>
       /\ \A s \in scheduled' : s.aborted
       /\ pendingJob' = <<>>]_vars

(***************************************************************************)
(* Claims about the decision engine, checked under SpecEngine.             *)
(***************************************************************************)
\* C16: under every valid configuration dynamicThreshold stays within
\* [0.30, 0.95], from its initial value on.
C16_ThresholdInRange == dynamicThreshold >= 3000 /\ dynamicThreshold <= 9500

\* C17: lastCommentTime never decreases from one updateHistory (one
\* emission) to the next, whatever timestamps the commented turns carry.
C17_LastCommentTimeNonDecreasing ==
  [][lastCommentTime # <<>> /\ lastCommentTime' # <<>> =>
       lastCommentTime'[1] >= lastCommentTime[1]]_vars

\* C18: commentHistory holds the last ten comments added, oldest first, and
\* evaluate changes neither commentHistory nor lastCommentTime.
C18_HistoryKeepsLastTen ==
  /\ [](/\ Len(commentHistory) = Min(nComments, 10)
        /\ \A i \in 1..Len(commentHistory) :
             commentHistory[i].id = nComments - Len(commentHistory) + i)
  /\ [][nEvals' # nEvals =>
          commentHistory' = commentHistory /\ lastCommentTime' = lastCommentTime]_vars

\* the eleventh comment pushed the first one out, with evaluations made
C18_Witness ==
  /\ nComments = 11
  /\ Len(commentHistory) = 10
  /\ commentHistory[1].id = 2
  /\ nEvals >= 1


(***************************************************************************)
(* Claims about the aggregator.                                            *)
(***************************************************************************)
\* the contents of the turns joined by single spaces, in order
RECURSIVE JoinSpaces(_)
JoinSpaces(parts) ==
  IF Len(parts) = 1 THEN parts[1].content
  ELSE JoinSpaces(SubSeq(parts, 1, Len(parts) - 1)) \o <<Space>> \o Last(parts).content

CoversParts(p) ==
  /\ p.parts # <<>>
  /\ p.turn.startTime = p.parts[1].startTime
  /\ p.turn.endTime = Last(p.parts).endTime
  /\ p.turn.content = JoinSpaces(p.parts)

\* C19: every turn the aggregator produces, returned by add or emitted on
\* timeout, starts where the first turn of its aggregation starts, ends
\* where the last one ends, and its content is their contents joined by
\* single spaces in arrival order; nothing of an aggregation that was
\* discarded or flushed before is in it
C19_ProducedTurnCoversConstituents == \A p \in Range(produced) : CoversParts(p)

\* a turn produced from two turns
C19_Witness ==
  \E p \in Range(produced) : Len(p.parts) >= 2 /\ p.parts[1].content # <<>>

\* the same for aggregations whose turns all have content
C19_CoversConstituentsWithContent ==
  \A p \in Range(produced) :
    (\A i \in 1..Len(p.parts) : p.parts[i].content # <<>>) => CoversParts(p)

(***************************************************************************)
(* Claims about the event detector.                                        *)
(***************************************************************************)
Satisfies(e) ==
  /\ e.confidence >= detectorConfig.detectionSensitivity
  /\ e.type \in {"emotion_peak", "topic_change"}
       => e.intensity >= detectorConfig.emotionThreshold
  /\ e.type \in {"topic_change", "question_raised", "conclusion_reached", "summary_point"}
       => e.intensity >= detectorConfig.topicTransitionThreshold
  /\ e.type = "key_point" => e.intensity >= detectorConfig.keypointDensityThreshold

TimingInMediaSeconds(last, timestamp, minI, maxI) ==
  LET delta == IF last = <<>> THEN 0 ELSE Max(0, timestamp - last[1])
  IN  IF timestamp < 20 * 1000 THEN 1000
      ELSE IF delta < minI * 1000 THEN Max(500, (delta * 2000) \div (minI * 1000))
      ELSE IF delta > maxI * 1000 THEN 10000
      ELSE ((delta - minI * 1000) * 10000) \div ((maxI - minI) * 1000)

\* C21: evaluate sets the timing factor to 0.1 exactly when the timestamp is
\* below 20 media seconds; otherwise, with delta the media seconds since the
\* last comment (0 before the first), it is max(0.05, delta / minInterval *
\* 0.2) below minInterval, 1 above maxInterval and the linear interpolation
\* in between
C21_TimingFactorInMediaSeconds ==
  \A d \in Range(decision) :
    d.timing = TimingInMediaSeconds(lastCommentTime, d.timestamp, minInterval, maxInterval)

\* an evaluation at 200 media seconds, after a comment
C21_Witness ==
  \E d \in Range(decision) : d.timestamp = 200000 /\ lastCommentTime # <<>>

\* the comments of the history with t - 90 s <= timestamp < t
RecentInMediaSeconds(history, t) ==
  {i \in 1..Len(history) :
     /\ history[i].timestamp # <<>>
     /\ t - 90 * 1000 <= history[i].timestamp[1]
     /\ history[i].timestamp[1] < t}

\* C22: the frequency suppression of evaluate(events, t) follows the number
\* n of comments of the history with t - 90 <= timestamp < t in media
\* seconds: 0.2 for n >= 3, 0.4 for n = 2, 0.6 for n = 1, 1.0 for n = 0; a
\* comment more than 90 media seconds before t does not suppress
C22_SuppressionCountsLast90Seconds ==
  \A d \in Range(decision) :
    LET n == Cardinality(RecentInMediaSeconds(commentHistory, d.timestamp))
    IN  d.frequencySuppression =
          IF n >= 3 THEN 2000 ELSE IF n = 2 THEN 4000 ELSE IF n = 1 THEN 6000 ELSE 10000

\* an evaluation at 200 media seconds with one comment in the history, made
\* at 10 media seconds
C22_Witness ==
  \E d \in Range(decision) :
    /\ d.timestamp = 200000
    /\ Len(commentHistory) = 1
    /\ commentHistory[1].timestamp = <<10000>>

(***************************************************************************)
(* Claims about two instances.                                             *)
(***************************************************************************)
\* C23: two facade instances share no mutable state: whatever the
\* interleaving of operations on two instances created with different API
\* keys, what one instance does, the credentials used for its generations
\* included, is the same as if the other did not exist; here: every model
\* request of an instance is sent with that instance's key
C23_OwnCredentialsOnly ==
  \A i \in InstanceIds : instances[i].used \subseteq {instances[i].apiKey}

\* both instances have generated a comment
C23_Witness ==
  \A i \in InstanceIds : instances[i].gens >= 1 /\ instances[i].used # {}

(***************************************************************************)
(* Claims about construction.                                              *)
(***************************************************************************)
\* the documented ranges: baseThreshold in [0, 1], intervals and durations
\* not negative
InDocumentedRange(config) ==
  /\ config.baseThreshold >= 0 /\ config.baseThreshold <= 10000
  /\ config.minInterval >= 0
  /\ config.maxInterval >= 0
  /\ config.minTurnDurationMs >= 0

\* C24: creating a facade with a configuration value outside its documented
\* range (baseThreshold above 1, a negative minInterval, a negative
\* minTurnDurationMs) fails at creation instead of yielding a running
\* system; omitted fields take their defaults
C24_InvalidConfigFailsAtCreation ==
  \A c \in Range(created) :
    /\ ~InDocumentedRange(c.config) => c.status = "failed"
    /\ configInput.baseThreshold = <<>> => c.config.baseThreshold = defaultBaseThreshold
    /\ configInput.minInterval = <<>> => c.config.minInterval = defaultMinInterval
    /\ configInput.maxInterval = <<>> => c.config.maxInterval = defaultMaxInterval
    /\ configInput.minTurnDurationMs = <<>> => c.config.minTurnDurationMs = minTurnDurationMs

\* a system constructed with baseThreshold 1.5 and minInterval omitted
C24_Witness ==
  \E c \in Range(created) :
    /\ configInput.baseThreshold = <<15000>>
    /\ configInput.minInterval = <<>>
    /\ c.config.minInterval = defaultMinInterval

(***************************************************************************)
(* Claims about the worker and pending comments.                           *)
(***************************************************************************)
\* a detection of a newer job is in flight while a comment scheduled for an
\* earlier job is still pending
NewerJobEvaluatedWhilePending ==
  \E s \in LiveComments : \E r \in running :
    r.phase = "detect" /\ r.job.id > s.job.id

\* C25: while a comment of an earlier positive decision is pending (its
\* delay has not elapsed or its generation has not finished), the worker can
\* still dequeue and evaluate a newer job, so that a newer positive decision
\* can supersede the pending comment; here: a job that waits in the slot
\* while a comment is pending waits for a detection in flight, never for the
\* comment
C25_PendingCommentDoesNotHoldTheWorker ==
  (LiveComments # {} /\ pendingJob # <<>>) => \E r \in running : r.phase = "detect"

\* a comment is pending and a newer job has been enqueued
C25_Witness ==
  \E s \in LiveComments : pendingJob # <<>> /\ pendingJob[1].id > s.job.id

\* no detection of a newer job starts while a comment is pending
C25_NeverSuperseded == ~NewerJobEvaluatedWhilePending

(***************************************************************************)
(* Claims about the queue's worker, checked under SpecQueue.               *)
(***************************************************************************)
\* ids of the jobs whose process call is in flight
InFlight == {r.job.id : r \in running}

\* C26: a job that is inside process(...) is never cancelled, aborted or
\* restarted by a later enqueue or by clear(): its call leaves the set of
\* calls in flight only by returning, it is not handed to process again,
\* and a job enqueued meanwhile waits in the slot and is picked up only in
\* a step in which the running call has returned
C26_InFlightJobUndisturbed ==
  [][/\ \A r \in running : r.job.id \in InFlight' \/ r.job.id \in settled' \ settled
     /\ (nJobs' # nJobs /\ running # {}) =>
          /\ running' = running
          /\ pendingJob' # <<>> /\ pendingJob'[1].id = nJobs'
     /\ Len(processed') > Len(processed) =>
          /\ \A r \in running : r.job.id \in settled'
          /\ \A i \in (Len(processed) + 1)..Len(processed') :
               \A k \in 1..Len(processed) : processed'[i] # processed[k]]_vars

\* a job is inside process, a later job was removed by clear() and a third
\* one waits in the slot
C26_Witness ==
  \E r \in running :
    /\ r.job.id \notin settled
    /\ \E c \in cleared : c > r.job.id
    /\ pendingJob # <<>> /\ pendingJob[1].id > r.job.id

\* the process calls of the queue return: the premise of C27
SpecQueueFair == SpecQueue /\ WF_vars(QProcessResolves \/ QProcessRejects)

\* the fates of an enqueued job once it has left the slot
Accounted(id) ==
  \/ id \in Range(processed)
  \/ id \in overwritten
  \/ id \in cleared
  \/ id \in {d.id : d \in dropped}

\* C27: provided every process call returns, every enqueued job is in the end
\* picked up by the worker, overwritten by a newer enqueue, dropped as stale
\* or removed by clear(); a job that is in none of these cases is still in
\* the slot, and the worker is never idle while the slot is non-empty.
C27_EveryJobMeetsItsFate ==
  /\ [](\A id \in 1..nJobs :
          Accounted(id) \/ (pendingJob # <<>> /\ pendingJob[1].id = id))
  /\ [](~processing => pendingJob = <<>>)
  /\ \A id \in 1..MaxJobs : (nJobs >= id) ~> Accounted(id)

\* every job was enqueued, one was replaced in the slot while a call was in
\* flight, a later one was picked up afterwards and the worker is idle again
C27_Witness ==
  /\ nJobs = MaxJobs
  /\ overwritten # {}
  /\ Len(processed) >= 2
  /\ ~processing /\ running = {} /\ pendingJob = <<>>

(***************************************************************************)
(* Claims about emission and clear() of the facade, checked under Spec.    *)
(***************************************************************************)
\* the segments of segs whose text was not in the uncommentedText handed
\* to the generation call of the scheduled comment s
ArrivedSince(segs, s) ==
  {i \in 1..Len(segs) : ~(Range(segs[i].content) \subseteq Range(s.uncommentedText))}

\* C28: the clear of the uncommented buffer on emission removes a segment
\* only if it was part of the uncommentedText handed to the generation of
\* the emitted comment: a turn that arrived while the generation call was
\* in flight is still in the uncommented buffer after the emission.
C28_EmissionClearsOnlyWhatWasHanded ==
  [][nEmitted' # nEmitted =>
       \A s \in scheduled \ scheduled' :
         \A i \in ArrivedSince(uncommentedBuffer, s) :
           uncommentedBuffer[i] \in Range(uncommentedBuffer')]_vars

\* a generation call is in flight and a turn has arrived since its
\* uncommentedText was taken
C28_Witness ==
  \E s \in scheduled :
    /\ s.phase = "generate"
    /\ ~s.aborted
    /\ ArrivedSince(uncommentedBuffer, s) # {}

\* C29: after clear() has returned, a comment that was scheduled or whose
\* generation had started before the clear emits no comment-generated
\* event, does not update the decision engine's history and does not clear
\* the uncommented buffer again.
C29_NothingOnBehalfOfClearedComment ==
  [][\A s \in scheduled \ scheduled' :
       (s.aborted /\ nClears >= 1) =>
         /\ nEmitted' = nEmitted
         /\ commentHistory' = commentHistory
         /\ lastCommentTime' = lastCommentTime
         /\ uncommentedBuffer' = uncommentedBuffer]_vars

\* clear() has returned while a generation call was in flight, and a turn
\* has been appended to the uncommented buffer since
C29_Witness ==
  /\ nClears >= 1
  /\ uncommentedBuffer # <<>>
  /\ \E s \in scheduled : s.aborted /\ s.phase = "generate"

\* the text an emitted comment has covered: both buffers are appended
\* together and emptied together by clear(), so a turn that is in the
\* context buffer and not in the uncommented buffer was removed from the
\* latter by an emission
CoveredText ==
  {w \in Range(GetWindow(fullContextBuffer, windowDuration)) :
     w # Space /\ w \notin Range(GetWindow(uncommentedBuffer, windowDuration))}

\* C30: the uncommentedText handed to the event detector for a job never
\* contains text of a turn that was in the uncommented buffer when an
\* earlier comment was emitted.
C30_DetectorSeesNoCoveredText ==
  \A r \in running :
    (r.phase = "detect" /\ r.job.id \in {d.id : d \in detected}) =>
      Range(r.job.uncommentedText) \cap CoveredText = {}

\* a job waits in the slot with a snapshot that shares text with the
\* uncommentedText of a generation call in flight
C30_Witness ==
  /\ pendingJob # <<>>
  /\ \E s \in scheduled :
       /\ s.phase = "generate"
       /\ ~s.aborted
       /\ (Range(s.uncommentedText) \cap Range(pendingJob[1].uncommentedText)) \ {Space} # {}

(***************************************************************************)
(* Claims about the buffers and the admission of turns, checked under      *)
(* Spec.                                                                   *)
(***************************************************************************)
\* the turn a segment was made of: its text and its end time (the position
\* field restarts at 0 in a buffer that was cleared)
TurnsOf(segs) == [i \in 1..Len(segs) |->
                    [content |-> segs[i].content, timestamp |-> segs[i].timestamp]]

IsSuffix(s, t) ==
  /\ Len(s) <= Len(t)
  /\ s = SubSeq(t, Len(t) - Len(s) + 1, Len(t))

\* C31: every turn passed to onTurnCompleted is appended to both buffers,
\* whether or not it becomes ready, and in every reachable state the
\* uncommented buffer's segments are a suffix of the context buffer's.
C31_BothBuffersAppendedUncommentedIsSuffix ==
  /\ [](IsSuffix(TurnsOf(uncommentedBuffer), TurnsOf(fullContextBuffer)))
  /\ [][nTurns' # nTurns =>
          /\ Len(fullContextBuffer') = Len(fullContextBuffer) + 1
          /\ Len(uncommentedBuffer') = Len(uncommentedBuffer) + 1
          /\ SubSeq(fullContextBuffer', 1, Len(fullContextBuffer)) = fullContextBuffer
          /\ SubSeq(uncommentedBuffer', 1, Len(uncommentedBuffer)) = uncommentedBuffer
          /\ TurnsOf(fullContextBuffer')[Len(fullContextBuffer')] =
               TurnsOf(uncommentedBuffer')[Len(uncommentedBuffer')]]_vars

\* after an emission a short turn that is not ready yet sits in the
\* aggregator and in both buffers, the context buffer being the longer
C31_Witness ==
  /\ nEmitted >= 1
  /\ bufferedContent # <<>>
  /\ uncommentedBuffer # <<>>
  /\ Len(fullContextBuffer) > Len(uncommentedBuffer)

\* the turns onTurnCompleted can have received in a step that moved the
\* media position: the gap and the duration add up to the move
ArrivedTurns(from, to, n) ==
  {MkTurn(<<"turn", n>>, <<n>>, from + gap, to) :
     gap \in {g \in TurnGaps : \E dur \in TurnDurations : from + g + dur = to}}

IsLong(turn) == turn.endTime - turn.startTime >= minTurnDurationMs

\* C32: when onTurnCompleted receives a turn at least minTurnDurationMs
\* long, the partial aggregation is discarded and its timer cancelled, and
\* exactly one detection job carrying that turn unmodified is enqueued.
C32_LongTurnDiscardsPartialAggregation ==
  [][nTurns' = nTurns + 1 =>
       \A turn \in ArrivedTurns(mediaPos, mediaPos', nTurns') :
         IsLong(turn) =>
           /\ bufferedContent' = <<>>
           /\ bufferedStartTime' = 0
           /\ lastTurnEndTime' = 0
           /\ timeoutHandle' = <<>>
           /\ nJobs' = nJobs + 1
           /\ \E j \in JobsAlive' : j.id = nJobs' /\ j.turn = turn]_vars

\* a short turn was buffered and the long turn after it made the only job:
\* the short turn was discarded and no timer is left to enqueue it
C32_Witness ==
  /\ nTurns = 2 /\ nJobs = 1 /\ nClears = 0
  /\ bufferedContent = <<>> /\ timeoutHandle = <<>>
  /\ \E j \in JobsAlive : j.id = 1 /\ j.turn.content = <<2>> /\ IsLong(j.turn)

(***************************************************************************)
(* Claims about the aggregator, checked under SpecAgg.                     *)
(***************************************************************************)
\* the media time the aggregation spans, from the aggregator's fields
ElapsedMs == lastTurnEndTime - bufferedStartTime

\* C33: add returns the aggregated turn at once whenever the elapsed media
\* time of the aggregation reaches minTurnDurationMs, or
\* aggregationMaxTotalDurationMs when that is positive, for every start
\* time, 0 included: an aggregation that add left buffered, its timer
\* armed, spans less than both limits.
C33_BufferedAggregationIsBelowDurationLimits ==
  timeoutHandle # <<>> =>
    /\ ElapsedMs < minTurnDurationMs
    /\ aggregationMaxTotalDurationMs > 0 => ElapsedMs < aggregationMaxTotalDurationMs

\* add returned an aggregate of several turns that started after media
\* time 0 and spans at least minTurnDurationMs
C33_Witness ==
  /\ produced # <<>>
  /\ produced[1].by = "add"
  /\ Len(produced[1].parts) >= 2
  /\ produced[1].turn.startTime > 0
  /\ produced[1].turn.endTime - produced[1].turn.startTime >= minTurnDurationMs

\* the same bound for the aggregations that start after media time 0
C33_BelowLimitsWhenStartedAfterZero ==
  (timeoutHandle # <<>> /\ bufferedStartTime > 0) =>
    /\ ElapsedMs < minTurnDurationMs
    /\ aggregationMaxTotalDurationMs > 0 => ElapsedMs < aggregationMaxTotalDurationMs

\* C34: with aggregationMaxWords > 0, add returns the aggregated turn on the
\* first add at which the word count of the buffered content reaches the
\* limit, and the aggregator is then empty with no timer armed; with
\* aggregationMaxWords = 0 the word count never makes add return a turn.
C34_WordLimitFlushesAtOnce ==
  /\ (timeoutHandle # <<>> /\ maxWords > 0) => CountWords(bufferedContent) < maxWords
  /\ (produced # <<>> /\ produced[1].by = "add") =>
       /\ bufferedContent = <<>> /\ timeoutHandle = <<>>
       /\ \/ maxWords > 0 /\ CountWords(produced[1].turn.content) >= maxWords
          \/ /\ produced[1].turn.startTime > 0
             /\ produced[1].turn.endTime - produced[1].turn.startTime >= minTurnDurationMs

\* the second add of an aggregation reached the limit of three words before
\* any duration limit and returned both turns' words
C34_Witness ==
  /\ maxWords = 3
  /\ produced # <<>> /\ produced[1].by = "add"
  /\ Len(produced[1].parts) = 2
  /\ CountWords(produced[1].turn.content) >= 3
  /\ produced[1].turn.endTime - produced[1].turn.startTime < minTurnDurationMs

\* the turn the add of this step was called with, and the content and start
\* time of the aggregation after it (of the returned turn if add returned)
AddedTurn == IF produced # <<>> THEN Last(produced[1].parts) ELSE Last(constituents)
AggregationContent == IF produced # <<>> THEN produced[1].turn.content ELSE bufferedContent
AggregationStart == IF produced # <<>> THEN produced[1].turn.startTime ELSE bufferedStartTime

C36_SingleDebounceTimer ==
  /\ [](Cardinality(timers) <= 1 /\ timers = Range(timeoutHandle))
  /\ [][/\ nTurns' = nTurns + 1 =>
            IF produced' = <<>>
            THEN /\ timers' = {[deadline |-> now + aggregationMaxDelayMs,
                                turn |-> AddedTurn'.id]}
                 /\ timers' \cap timers = {}
            ELSE timers' = {} /\ bufferedContent' = <<>>
        /\ nClears' = nClears + 1 => timers' = {} /\ bufferedContent' = <<>>
        /\ (timers' # timers /\ nTurns' = nTurns /\ nClears' = nClears) =>
             /\ \E f \in timers :
                  /\ now >= f.deadline
                  /\ f.turn = <<"turn", nTurns>>
                  /\ f.turn = Last(constituents).id
             /\ produced' =
                  IF bufferedContent = <<>> THEN <<>>
                  ELSE <<[turn |-> MkTurn(<<"agg", bufferedStartTime>>, bufferedContent,
                                          bufferedStartTime, lastTurnEndTime),
                          parts |-> constituents, by |-> "timeout"]>>
             /\ timers' = {} /\ timeoutHandle' = <<>>
             /\ bufferedContent' = <<>> /\ bufferedStartTime' = 0
             /\ lastTurnEndTime' = 0]_vars

\* the timer armed by the second of two adds fired and the timeout carried
\* both turns; no timer is left
C36_Witness ==
  /\ produced # <<>>
  /\ produced[1].by = "timeout"
  /\ Len(produced[1].parts) = 2
  /\ timers = {} /\ timeoutHandle = <<>> /\ bufferedContent = <<>>

(***************************************************************************)
(* Claims about the threshold and the suggested delay, checked under       *)
(* SpecScore.  sinceMs is the media time since the last comment in the     *)
(* model's milliseconds (0 when there is none), so the interval of n       *)
(* seconds is n * 1000.                                                    *)
(***************************************************************************)
ThresholdInMediaSeconds(th, base, minI, maxI, commented, sinceMs) ==
  IF commented /\ 2 * sinceMs < 3 * minI * 1000
  THEN Min(9500, (th * 105) \div 100)
  ELSE IF ~commented /\ sinceMs > maxI * 1000
       THEN Max(3000, (th * 95) \div 100)
       ELSE th + ((base - th) \div 10)

\* C37: after every evaluate, with the media seconds since the last comment
\* and the threshold used for the decision, the new threshold is
\* min(0.95, 1.05 x) when commenting within 1.5 minInterval, max(0.30,
\* 0.95 x) when silent for more than maxInterval, and x + 0.1 (base - x)
\* otherwise; shouldComment is final > x with the threshold before the update.
C37_ThresholdUpdateInMediaSeconds ==
  \A d \in Range(decision) :
    /\ d.shouldComment = (d.score > d.threshold)
    /\ dynamicThreshold =
         ThresholdInMediaSeconds(d.threshold, baseThreshold, minInterval, maxInterval,
                                 d.shouldComment,
                                 TimeSinceLastComment(lastCommentTime, d.timestamp))

\* an evaluation decided against commenting more than maxInterval media
\* seconds after the last comment
C37_Witness ==
  \E d \in Range(decision) :
    /\ lastCommentTime # <<>>
    /\ ~d.shouldComment
    /\ d.timestamp - lastCommentTime[1] > maxInterval * 1000

DelayInMediaSeconds(priority, sinceMs, minI) ==
  LET baseDelay == IF priority = "high" THEN 1500
                   ELSE IF priority = "medium" THEN 2500 ELSE 4000
  IN  IF sinceMs < minI * 1000 THEN baseDelay + (minI * 1000 - sinceMs) ELSE baseDelay

\* C38: the suggestedDelay of a decision is 1500, 2500 or 4000 ms for
\* priority high, medium or low, plus (minInterval - since) x 1000 ms exactly
\* when the media seconds since the last comment are below minInterval.
C38_SuggestedDelayInMediaSeconds ==
  \A d \in Range(decision) :
    d.suggestedDelay =
      DelayInMediaSeconds(d.priority, TimeSinceLastComment(lastCommentTime, d.timestamp),
                          minInterval)

\* a high-priority decision made at least minInterval media seconds after
\* the last comment
C38_Witness ==
  \E d \in Range(decision) :
    /\ lastCommentTime # <<>>
    /\ d.priority = "high"
    /\ d.timestamp - lastCommentTime[1] >= minInterval * 1000

\* the window as stated: the contents, joined by single spaces and in
\* arrival order, of the segments at most sizeSeconds older than the newest
StatedWindow(segs, size) ==
  LET newest == IF segs = <<>> THEN 0 ELSE segs[Len(segs)].timestamp
      sel == SelectSeq(segs, LAMBDA s : s.timestamp >= newest - size * 1000)
  IN  Flatten([i \in 1..Len(sel) |-> sel[i].content])

\* C39: getWindow(sizeSeconds) returns the space-joined contents, in arrival
\* order, of exactly the segments whose timestamp is at least the newest
\* segment's timestamp minus sizeSeconds; older segments are excluded and an
\* empty buffer yields the empty string.
C39_WindowHoldsLastSizeSeconds ==
  \A c \in Range(called) :
    c.op = "getWindow" => c.text = StatedWindow(segments, c.size)

\* a window of one second taken of a buffer whose oldest segment is older
\* than that and left out
C39_Witness ==
  \E c \in Range(called) :
    /\ c.op = "getWindow" /\ c.size = 1
    /\ Len(segments) >= 2
    /\ segments[1].timestamp < segments[Len(segments)].timestamp - 1000
    /\ c.text # Flatten([i \in 1..Len(segments) |-> segments[i].content])
    /\ c.text # <<>>

Reverse(s) == [i \in 1..Len(s) |-> s[Len(s) + 1 - i]]

\* the search as stated: the first limit matching segments, newest first
StatedSearch(segs, pattern, limit) ==
  LET hits == SelectSeq(Reverse(segs), LAMBDA s : pattern \in Range(s.content))
      found == [i \in 1..Len(hits) |->
                  [content |-> hits[i].content, timestamp |-> hits[i].timestamp]]
  IN  SubSeq(found, 1, Min(limit, Len(found)))

\* C40: search(pattern, limit) returns exactly the first limit matching
\* segments in reverse arrival order; no matching segment among them is
\* skipped, whatever matched in the segments examined before it.
C40_SearchSkipsNoMatch ==
  \A c \in Range(called) :
    c.op = "search" => c.results = StatedSearch(segments, c.pattern, c.limit)

\* a search that stopped at its limit with matching segments left over
C40_Witness ==
  \E c \in Range(called) :
    /\ c.op = "search" /\ c.limit = 2
    /\ Len(c.results) = 2
    /\ Len(StatedSearch(segments, c.pattern, defaultLimit)) = 3
    /\ c.results = StatedSearch(segments, c.pattern, c.limit)

====
